---------------------------- MODULE Spec2Model ----------------------------
(***************************************************************************)
(* investor_agent/yfinance_utils.py: the shared cached, rate-limited       *)
(* session (lines 15-24), get_options_chain (122-148) and                  *)
(* get_filtered_options (150-227).                                         *)
(*                                                                         *)
(* Date texts are sequences of one-character strings, so that strptime is  *)
(* modelled by what it does to the characters.  Messages are strings.      *)
(***************************************************************************)
EXTENDS Integers, Sequences, FiniteSets, TLC

\* Python's None, and a present optional value
None == [none |-> TRUE]

Some(x) == [some |-> x]

(***************************************************************************)
(* Bounds of the model.                                                    *)
(***************************************************************************)
MaxExp == 3            \* longest expiration list the provider returns
TicksPerSecond == 2    \* clock resolution: ticks per second
NumCallers == 2        \* concurrent accessor callers of the shared session
MaxPayload == 2        \* distinct payload versions the provider may serve
MaxSends == 2          \* network calls remembered per request identity

(***************************************************************************)
(* datetime.strptime(text, "%Y-%m-%d") (lines 163, 169, 180, 181, 186).    *)
(* The format compiles to the regular expression                           *)
(*   (\d\d\d\d)-(1[0-2]|0[1-9]|[1-9])-(3[01]|[12]\d|0[1-9]|[1-9]| [1-9])   *)
(* matched at the start of the text; text left over after the match, or a  *)
(* field combination that is no calendar date, raises ValueError.          *)
(***************************************************************************)
Digits == <<"0", "1", "2", "3", "4", "5", "6", "7", "8", "9">>

IsDigit(c) == \E i \in 1..10 : Digits[i] = c

DigitVal(c) == (CHOOSE i \in 1..10 : Digits[i] = c) - 1

At(s, i) == IF i >= 1 /\ i <= Len(s) THEN s[i] ELSE "$"

\* length of the month field matched at position p (0: no match)
MonthLen(s, p) ==
    IF At(s, p) = "1" /\ At(s, p + 1) \in {"0", "1", "2"} THEN 2
    ELSE IF At(s, p) = "0" /\ IsDigit(At(s, p + 1)) /\ At(s, p + 1) # "0" THEN 2
    ELSE IF IsDigit(At(s, p)) /\ At(s, p) # "0" THEN 1
    ELSE 0

\* length of the day field matched at position p (0: no match)
DayLen(s, p) ==
    IF At(s, p) = "3" /\ At(s, p + 1) \in {"0", "1"} THEN 2
    ELSE IF At(s, p) \in {"1", "2"} /\ IsDigit(At(s, p + 1)) THEN 2
    ELSE IF At(s, p) = "0" /\ IsDigit(At(s, p + 1)) /\ At(s, p + 1) # "0" THEN 2
    ELSE IF IsDigit(At(s, p)) /\ At(s, p) # "0" THEN 1
    ELSE IF At(s, p) = " " /\ IsDigit(At(s, p + 1)) /\ At(s, p + 1) # "0" THEN 2
    ELSE 0

FieldVal(s, p, n) ==
    IF n = 1 THEN DigitVal(s[p])
    ELSE IF s[p] = " " THEN DigitVal(s[p + 1])
    ELSE 10 * DigitVal(s[p]) + DigitVal(s[p + 1])

IsLeap(y) == (y % 4 = 0 /\ y % 100 # 0) \/ y % 400 = 0

DaysInMonth(y, m) ==
    IF m = 2 THEN (IF IsLeap(y) THEN 29 ELSE 28)
    ELSE IF m \in {4, 6, 9, 11} THEN 30 ELSE 31

ValueError == [error |-> "ValueError"]

strptime(s) ==
    IF ~(\A i \in 1..4 : IsDigit(At(s, i))) \/ At(s, 5) # "-" THEN ValueError
    ELSE LET lm == MonthLen(s, 6) IN
      IF lm = 0 \/ At(s, 6 + lm) # "-" THEN ValueError
      ELSE LET ld == DayLen(s, 7 + lm) IN
        IF ld = 0 \/ Len(s) # 6 + lm + ld THEN ValueError
        ELSE LET y == 1000 * DigitVal(s[1]) + 100 * DigitVal(s[2])
                        + 10 * DigitVal(s[3]) + DigitVal(s[4])
                 m == FieldVal(s, 6, lm)
                 d == FieldVal(s, 7 + lm, ld)
             IN IF y < 1 \/ d > DaysInMonth(y, m) THEN ValueError
                ELSE [y |-> y, m |-> m, d |-> d]

Parses(s) == strptime(s) # ValueError

\* the variant that compares the days with <, shutting out a date equal to the bound
DateLt(a, b) ==
    \/ a.y < b.y
    \/ a.y = b.y /\ a.m < b.m
    \/ a.y = b.y /\ a.m = b.m /\ a.d < b.d

\* date.__le__ : comparison of (year, month, day)
DateLe(a, b) ==
    \/ a.y < b.y
    \/ a.y = b.y /\ a.m < b.m
    \/ a.y = b.y /\ a.m = b.m /\ a.d <= b.d

\* truthiness of an optional str argument: None and "" are both falsy
Truthy(text) == text # None /\ text.some # <<>>


(***************************************************************************)
(* The shared session (lines 16-24).  CachedLimiterSession(CacheMixin,     *)
(* LimiterMixin, Session): a request first meets the cache; only a miss     *)
(* goes on to the limiter and then to the network.  The limiter admits      *)
(* RequestRate(5, Duration.SECOND); the session is built without per_host,  *)
(* so LimiterMixin keeps one bucket per request host.  The cache keeps a    *)
(* response for expire_after = 3600 s; that is 3600 windows of the limiter, *)
(* so the lapse of an entry's time-to-live is the event TTLLapse(id)        *)
(* rather than a count of ticks.                                            *)
(***************************************************************************)
RequestRate_limit == 5

Duration_SECOND == 1

\* ticks in one window of the limiter
Window == Duration_SECOND * TicksPerSecond

\* the dates the provider's listing is drawn from
Jan17 == <<"2", "0", "2", "5", "-", "0", "1", "-", "1", "7">>

Feb21 == <<"2", "0", "2", "5", "-", "0", "2", "-", "2", "1">>

Mar21 == <<"2", "0", "2", "5", "-", "0", "3", "-", "2", "1">>

Apr17 == <<"2", "0", "2", "5", "-", "0", "4", "-", "1", "7">>

Listing == <<Jan17, Feb21, Mar21, Apr17>>

Min(a, b) == IF a < b THEN a ELSE b

\* request identities: endpoint and parameters of the URL the provider client asks for
ListId == [endpoint |-> "options", date |-> None]

ChainId(exp) == [endpoint |-> "options", date |-> Some(exp)]

QuoteId == [endpoint |-> "quote", date |-> None]

Idents == {ListId, QuoteId} \cup {ChainId(Listing[i]) : i \in 1..Min(MaxExp, Len(Listing))}

\* the host of the request's URL: the provider client addresses more than one
HostOf(id) == IF id.endpoint = "options" THEN "query2" ELSE "query1"

Hosts == {HostOf(id) : id \in Idents}

VARIABLES
    cache,      \* SQLiteCache: identity -> [state, payload]
    bucket,     \* limiter: host -> ages (in ticks) of the permits inside the window
    started,    \* host -> ages of the network calls started inside the last window
    netCalls,   \* identity -> network calls since the identity's last TTL lapse
    settled,    \* identity -> payload last returned with no other call in flight
    callers,    \* accessor callers of the session: caller -> request in flight
    returned,   \* the response the session handed back last
    pc,         \* get_filtered_options: where the calling thread is
    args,       \* get_filtered_options: the arguments of the call
    expirations,        \* line 174: t.options
    valid_expirations,  \* lines 184-189
    tasks,      \* line 197: one fetch per selected expiration, in executor.map order
    merged,     \* line 212: df before the strike filter
    provCalls,  \* requests this call has put to the session
    ret         \* what the call returned

gateVars == <<cache, bucket, started, netCalls>>

callerVars == <<settled, callers, returned>>

pipeVars == <<pc, args, expirations, valid_expirations, tasks, merged, provCalls, ret>>

vars == <<cache, bucket, started, netCalls, settled, callers, returned,
          pc, args, expirations, valid_expirations, tasks, merged, provCalls, ret>>

Absent == [state |-> "absent", payload |-> None]

\* an entry older than expire_after: it is never served again, its payload is left out
Expired == [state |-> "expired", payload |-> None]

GateInit ==
    /\ bucket = [h \in Hosts |-> <<>>]
    /\ started = [h \in Hosts |-> <<>>]
    /\ netCalls = [id \in Idents |-> 0]

\* CacheMixin.send: an unexpired entry is the response
CachedResponse(id) == IF cache[id].state = "fresh" THEN cache[id].payload ELSE None

\* the variant of a session without a cache: nothing is stored
CacheSaveNothing(id, body) == cache

\* CacheMixin.send, after the network: only a successful response is saved
CacheSave(id, body) == [cache EXCEPT ![id] = [state |-> "fresh", payload |-> Some(body)]]

\* the bucket the request is counted in
BucketName(id) == HostOf(id)

\* Limiter.try_acquire: the bucket has room while fewer than the limit lie in the window
LimiterHasRoom(id) == Len(bucket[BucketName(id)]) < RequestRate_limit

\* Limiter.try_acquire: the permit is stamped with the current time
LimiterPut(id) == [bucket EXCEPT ![BucketName(id)] = Append(@, 0)]

\* one tick of the clock: every age grows, what left the window is dropped
Aged(ages) ==
    LET older == [i \in 1..Len(ages) |-> ages[i] + 1]
        InWindow(a) == a < Window
    IN SelectSeq(older, InWindow)

\* the network call of a granted request starts now
LogStart(id) == [started EXCEPT ![HostOf(id)] = Append(@, 0)]

\* the network call of a granted request starts: counted per identity, saturating
CountNet(id) == [netCalls EXCEPT ![id] = Min(@ + 1, MaxSends)]

Tick ==
    /\ bucket' = [h \in Hosts |-> Aged(bucket[h])]
    /\ started' = [h \in Hosts |-> Aged(started[h])]
    /\ UNCHANGED <<cache, netCalls>>

(***************************************************************************)
(* Accessor callers: every accessor (lines 26-148) is one or more requests  *)
(* of yf.Ticker(ticker, session=session) through the shared session.        *)
(***************************************************************************)
Callers == 1..NumCallers

Payloads == 1..MaxPayload

Idle == [st |-> "idle", id |-> ListId]

NoResponse == [id |-> ListId, resp |-> None, via |-> "none"]

CallersInit ==
    /\ callers = [c \in Callers |-> Idle]
    /\ returned = NoResponse
    /\ settled = [id \in Idents |-> None]

InFlight(id) == {c \in Callers : callers[c].st # "idle" /\ callers[c].id = id}

\* what a completed call leaves as the settled payload of its identity
Settle(c, id, resp) ==
    [settled EXCEPT ![id] = IF InFlight(id) \ {c} = {} THEN resp ELSE None]

\* the variant with the limiter ahead of the cache: a hit also waits for room in
\* the window and takes a unit of it
RequestLimiterFirst(c, id) ==
    /\ callers[c].st = "idle"
    /\ LET r == CachedResponse(id)
       IN IF r # None
          THEN /\ LimiterHasRoom(id)
               /\ bucket' = LimiterPut(id)
               /\ returned' = [id |-> id, resp |-> r, via |-> "cache"]
               /\ settled' = Settle(c, id, r)
               /\ UNCHANGED <<callers, started, netCalls>>
          ELSE /\ callers' = [callers EXCEPT ![c] = [st |-> "acquire", id |-> id]]
               /\ UNCHANGED <<settled, returned, bucket, started, netCalls>>
    /\ UNCHANGED cache
    /\ UNCHANGED pipeVars

\* CacheMixin.send: a hit returns the entry, a miss goes on to LimiterMixin.send
Request(c, id) ==
    /\ callers[c].st = "idle"
    /\ LET r == CachedResponse(id)
       IN IF r # None
          THEN /\ returned' = [id |-> id, resp |-> r, via |-> "cache"]
               /\ settled' = Settle(c, id, r)
               /\ UNCHANGED callers
          ELSE /\ callers' = [callers EXCEPT ![c] = [st |-> "acquire", id |-> id]]
               /\ UNCHANGED <<settled, returned>>
    /\ UNCHANGED <<cache, bucket, started, netCalls>>
    /\ UNCHANGED pipeVars

\* the variant of a limiter that does not delay: with the window full the request
\* fails at once and the caller gets no response
AcquireOrFail(c) ==
    /\ callers[c].st = "acquire"
    /\ IF LimiterHasRoom(callers[c].id)
       THEN /\ bucket' = LimiterPut(callers[c].id)
            /\ started' = LogStart(callers[c].id)
            /\ netCalls' = CountNet(callers[c].id)
            /\ callers' = [callers EXCEPT ![c].st = "send"]
            /\ UNCHANGED <<settled, returned>>
       ELSE /\ callers' = [callers EXCEPT ![c] = Idle]
            /\ returned' = [id |-> callers[c].id, resp |-> None, via |-> "limiter"]
            /\ settled' = Settle(c, callers[c].id, None)
            /\ UNCHANGED <<bucket, started, netCalls>>
    /\ UNCHANGED cache
    /\ UNCHANGED pipeVars

\* LimiterMixin.send: blocks (delay=True) until the bucket has room, then the call starts
Acquire(c) ==
    /\ callers[c].st = "acquire"
    /\ LimiterHasRoom(callers[c].id)
    /\ bucket' = LimiterPut(callers[c].id)
    /\ started' = LogStart(callers[c].id)
    /\ netCalls' = CountNet(callers[c].id)
    /\ callers' = [callers EXCEPT ![c].st = "send"]
    /\ UNCHANGED <<cache, settled, returned>>
    /\ UNCHANGED pipeVars

\* the variant with negative caching: the failure is stored as the entry (payload 0)
SendCachingFailure(c, served) ==
    /\ callers[c].st = "send"
    /\ callers' = [callers EXCEPT ![c] = Idle]
    /\ \/ \E p \in served :
            /\ cache' = CacheSave(callers[c].id, p)
            /\ returned' = [id |-> callers[c].id, resp |-> Some(p), via |-> "net"]
            /\ settled' = Settle(c, callers[c].id, Some(p))
       \/ /\ cache' = CacheSave(callers[c].id, 0)
          /\ returned' = [id |-> callers[c].id, resp |-> None, via |-> "net"]
          /\ settled' = Settle(c, callers[c].id, None)
    /\ UNCHANGED <<bucket, started, netCalls>>
    /\ UNCHANGED pipeVars

\* Session.send returns: a response is cached and returned, a failure propagates
Send(c, served) ==
    /\ callers[c].st = "send"
    /\ callers' = [callers EXCEPT ![c] = Idle]
    /\ \/ \E p \in served :
            /\ cache' = CacheSave(callers[c].id, p)
            /\ returned' = [id |-> callers[c].id, resp |-> Some(p), via |-> "net"]
            /\ settled' = Settle(c, callers[c].id, Some(p))
       \/ /\ returned' = [id |-> callers[c].id, resp |-> None, via |-> "net"]
          /\ settled' = Settle(c, callers[c].id, None)
          /\ UNCHANGED cache
    /\ UNCHANGED <<bucket, started, netCalls>>
    /\ UNCHANGED pipeVars

\* expire_after has passed since the identity's entry was written
TTLLapse(id) ==
    /\ cache[id].state = "fresh" \/ netCalls[id] > 0
    /\ cache' = [cache EXCEPT ![id] = IF @.state = "fresh" THEN Expired ELSE @]
    /\ netCalls' = [netCalls EXCEPT ![id] = 0]
    /\ settled' = [settled EXCEPT ![id] = None]
    /\ UNCHANGED <<bucket, started, callers, returned>>
    /\ UNCHANGED pipeVars

(***************************************************************************)
(* What the provider serves.  A chain has a calls table and a puts table;   *)
(* a row is one contract.  A fetch may also fail, with a message that may   *)
(* be empty (str(e) of an exception raised without arguments).              *)
(***************************************************************************)
Row(sym, k, oi, vol) == [contractSymbol |-> sym, strike |-> k, openInterest |-> oi, volume |-> vol]

ChainOf(exp) ==
    IF exp = Jan17 THEN [calls |-> <<Row("J-C090", 90, 5, 2), Row("J-C100", 100, 7, 1)>>,
                         puts |-> <<Row("J-P125", 125, 5, 2)>>]
    ELSE IF exp = Feb21 THEN [calls |-> <<Row("F-C150", 150, 7, 3)>>,
                              puts |-> <<Row("F-P200", 200, 0, 0), Row("F-P100", 100, 7, 1)>>]
    ELSE IF exp = Mar21 THEN [calls |-> <<>>, puts |-> <<>>]
    ELSE [calls |-> <<Row("A-C125", 125, 1, 0)>>, puts |-> <<>>]

FailureTexts == {"", "HTTPError"}

\* t.options: the listing in provider order, possibly empty
ExpirationLists ==
    {SubSeq(Listing, 1, n) : n \in 0..Min(MaxExp, Len(Listing))} \cup {<<Mar21, Jan17>>}

\* the texts a caller may pass as start_date and end_date
DateArgs ==
    { None, Some(<<>>),
      Some(<<"2", "0", "2", "5", "-", "0", "2", "-", "0", "1">>),
      Some(<<"2", "0", "2", "5", "-", "2", "-", "2", "1">>),
      Some(<<"2", "0", "2", "5", "-", "0", "3", "-", "3", "1">>),
      Some(<<"2", "0", "2", "5", "/", "0", "2", "/", "0", "1">>),
      Some(<<"2", "0", "2", "5", "-", "0", "2", "-", "3", "0">>) }

StrikeArgs == {None, Some(0), Some(100), Some(150)}

OptionTypes == {None, Some("C"), Some("P")}

\* the calls explored: every pair of dates, every pair of strike bounds with every
\* option type, and every start date with a malformed end date and a strike range
ArgSets ==
    [start_date : DateArgs, end_date : DateArgs, option_type : {None},
     strike_lower : {None}, strike_upper : {None}]
    \cup [start_date : {None}, end_date : {None}, option_type : OptionTypes,
          strike_lower : StrikeArgs, strike_upper : StrikeArgs]
    \cup [start_date : DateArgs, end_date : {None, Some(<<"3", "1", "-", "0", "3">>)},
          option_type : {Some("C")}, strike_lower : {Some(100)}, strike_upper : {Some(150)}]

\* the durable cache file may hold an unexpired chain of an earlier run
CacheFiles ==
    { [id \in Idents |-> Absent],
      [id \in Idents |->
          IF id = ChainId(Feb21) THEN [state |-> "fresh", payload |-> Some(ChainOf(Feb21))]
          ELSE Absent] }

Ticker == "AAPL"

(***************************************************************************)
(* get_options_chain (lines 122-148), after the session has answered.       *)
(***************************************************************************)
\* lines 140-144: the side asked for
ChainRows(chain, option_type) ==
    IF option_type = Some("C") THEN chain.calls
    ELSE IF option_type = Some("P") THEN chain.puts
    ELSE chain.calls \o chain.puts

ChainResult(chain, option_type) ==
    [chain |-> Some(ChainRows(chain, option_type)), error |-> None]

\* the variant without the handler of lines 146-148: the exception leaves the
\* function and the caller is handed neither rows nor a reason
ChainRaises(msg) == [chain |-> None, error |-> None]

\* lines 146-148: any exception becomes (None, str(e))
ChainFailure(msg) == [chain |-> None, error |-> Some(msg)]

\* lines 135-136
NoExpiry == [chain |-> None, error |-> Some("No expiry date provided")]

NoResult == [chain |-> None, error |-> None]

(***************************************************************************)
(* get_filtered_options (lines 150-227).                                    *)
(***************************************************************************)
Returned(df, err) == [df |-> df, err |-> err, raised |-> FALSE]

NotReturned == [df |-> None, err |-> None, raised |-> FALSE]

InvalidStart == Returned(None, Some("Invalid start_date format. Use YYYY-MM-DD"))

InvalidEnd == Returned(None, Some("Invalid end_date format. Use YYYY-MM-DD"))

NoOptions == Returned(None, Some("No options available for " \o Ticker))

NoneInRange == Returned(None, Some("No options found for " \o Ticker \o " within specified date range"))

NoneMatching == Returned(None, Some("No options found for " \o Ticker \o " matching criteria"))

\* the variant without the handler of lines 225-227: the exception leaves the function
Reraise(msg) == [df |-> None, err |-> None, raised |-> TRUE]

\* lines 225-227: the handler of the whole body
HandleException(msg) == Returned(None, Some("Failed to retrieve options data: " \o msg))

\* the variant that validates start_date only
ValidateStartOnly(a) ==
    IF Truthy(a.start_date) /\ ~Parses(a.start_date.some) THEN InvalidStart
    ELSE NotReturned

\* lines 161-171: the first malformed date decides the result
Validate(a) ==
    IF Truthy(a.start_date) /\ ~Parses(a.start_date.some) THEN InvalidStart
    ELSE IF Truthy(a.end_date) /\ ~Parses(a.end_date.some) THEN InvalidEnd
    ELSE NotReturned

\* lines 180-181
DateObj(text) == IF Truthy(text) THEN Some(strptime(text.some)) ELSE None

\* lines 184-189
ValidExpirations(exps, a) ==
    LET start_date_obj == DateObj(a.start_date)
        end_date_obj == DateObj(a.end_date)
        Keep(exp) ==
            LET exp_date == strptime(exp)
            IN /\ (start_date_obj = None \/ DateLe(start_date_obj.some, exp_date))
               /\ (end_date_obj = None \/ DateLe(exp_date, end_date_obj.some))
    IN SelectSeq(exps, Keep)

\* lines 180-186: strptime raises ValueError on a text it cannot read
SelectionRaises(exps, a) ==
    \/ Truthy(a.start_date) /\ ~Parses(a.start_date.some)
    \/ Truthy(a.end_date) /\ ~Parses(a.end_date.some)
    \/ \E i \in 1..Len(exps) : ~Parses(exps[i])

\* the variant that tags every chain with the first selected expiration
AssignFirst(rows, expiry) ==
    [i \in 1..Len(rows) |->
        [contractSymbol |-> rows[i].contractSymbol, strike |-> rows[i].strike,
         openInterest |-> rows[i].openInterest, volume |-> rows[i].volume,
         expiryDate |-> valid_expirations[1]]]

\* line 207: chain.assign(expiryDate=expiry)
Assign(rows, expiry) ==
    [i \in 1..Len(rows) |->
        [contractSymbol |-> rows[i].contractSymbol, strike |-> rows[i].strike,
         openInterest |-> rows[i].openInterest, volume |-> rows[i].volume,
         expiryDate |-> expiry]]

\* `if error:` : None and "" are falsy
IsError(error) == error # None /\ error.some # ""

\* the variant with `break` for `continue`: nothing is kept after the first failed fetch
RECURSIVE ChainsUntilError(_, _)
ChainsUntilError(results, exps) ==
    IF results = <<>> THEN <<>>
    ELSE LET r == Head(results)
         IN IF IsError(r.error) THEN <<>>
            ELSE IF r.chain # None
            THEN <<Assign(r.chain.some, Head(exps))>> \o ChainsUntilError(Tail(results), Tail(exps))
            ELSE ChainsUntilError(Tail(results), Tail(exps))

\* the variant in which one failed fetch discards every chain
ChainsAllOrNone(results, exps) ==
    IF \E i \in 1..Len(results) : results[i].chain = None THEN <<>>
    ELSE [i \in 1..Len(results) |-> Assign(results[i].chain.some, exps[i])]

\* lines 202-207: the chains kept, in the order of valid_expirations
RECURSIVE FilteredOptionChains(_, _)
FilteredOptionChains(results, exps) ==
    IF results = <<>> THEN <<>>
    ELSE LET r == Head(results)
             rest == FilteredOptionChains(Tail(results), Tail(exps))
         IN IF IsError(r.error) THEN rest
            ELSE IF r.chain # None THEN <<Assign(r.chain.some, Head(exps))>> \o rest
            ELSE rest

\* line 212: pd.concat(..., ignore_index=True)
RECURSIVE Concat(_)
Concat(frames) == IF frames = <<>> THEN <<>> ELSE Head(frames) \o Concat(Tail(frames))

\* the variant that tests the bounds for truth: a bound of 0 is not applied
StrikeMaskTruthy(row, strike_lower, strike_upper) ==
    /\ ((strike_lower # None /\ strike_lower.some # 0) => row.strike >= strike_lower.some)
    /\ ((strike_upper # None /\ strike_upper.some # 0) => row.strike <= strike_upper.some)

\* lines 215-221
StrikeMask(row, strike_lower, strike_upper) ==
    /\ (strike_lower # None => row.strike >= strike_lower.some)
    /\ (strike_upper # None => row.strike <= strike_upper.some)

StrikeFilter(df, strike_lower, strike_upper) ==
    LET Keep(row) == StrikeMask(row, strike_lower, strike_upper)
    IN SelectSeq(df, Keep)

\* the variant of a sort that is not stable: among rows with equal keys the later
\* row comes first
BeforeLaterFirst(df, j, i) ==
    \/ df[j].openInterest > df[i].openInterest
    \/ df[j].openInterest = df[i].openInterest /\ df[j].volume > df[i].volume
    \/ df[j].openInterest = df[i].openInterest /\ df[j].volume = df[i].volume /\ j > i

\* line 223: sort_values(['openInterest', 'volume'], ascending=[False, False]):
\* a stable sort, among rows with equal keys the earlier row stays first
Before(df, j, i) ==
    \/ df[j].openInterest > df[i].openInterest
    \/ df[j].openInterest = df[i].openInterest /\ df[j].volume > df[i].volume
    \/ df[j].openInterest = df[i].openInterest /\ df[j].volume = df[i].volume /\ j < i

\* the position of row i in the sorted frame
Rank(df, i) == 1 + Cardinality({j \in 1..Len(df) : Before(df, j, i)})

SortValues(df) ==
    [k \in 1..Len(df) |-> df[CHOOSE i \in 1..Len(df) : Rank(df, i) = k]]

\* ThreadPoolExecutor() (line 196): min(32, cpu_count + 4) threads, five on one processor
max_workers == 5

PipeInit ==
    /\ pc = "call"
    /\ args = [start_date |-> None, end_date |-> None, option_type |-> None,
               strike_lower |-> None, strike_upper |-> None]
    /\ expirations = <<>>
    /\ valid_expirations = <<>>
    /\ tasks = <<>>
    /\ merged = <<>>
    /\ provCalls = 0
    /\ ret = NotReturned

Init == cache \in CacheFiles /\ GateInit /\ CallersInit /\ PipeInit

ColdInit == cache = [id \in Idents |-> Absent] /\ GateInit /\ CallersInit /\ PipeInit

\* the variant without lines 191-192: an empty selection goes on to the pool
AfterListingNoRangeCheck(exps, a) ==
    LET valid == ValidExpirations(exps, a)
    IN /\ expirations' = exps
       /\ IF exps = <<>>
          THEN /\ ret' = NoOptions
               /\ pc' = "done"
               /\ UNCHANGED <<valid_expirations, tasks>>
          ELSE IF SelectionRaises(exps, a)
          THEN /\ ret' = HandleException("time data does not match format '%Y-%m-%d'")
               /\ pc' = "done"
               /\ UNCHANGED <<valid_expirations, tasks>>
          ELSE /\ valid_expirations' = valid
               /\ tasks' = [i \in 1..Len(valid) |->
                              [st |-> "queued", calls |-> 0, result |-> NoResult,
                               served |-> "none"]]
               /\ pc' = "join"
               /\ UNCHANGED ret

\* lines 176-200 once t.options is there: select, then submit one fetch per expiration
AfterListing(exps, a) ==
    LET valid == ValidExpirations(exps, a)
    IN /\ expirations' = exps
       /\ IF exps = <<>>
          THEN /\ ret' = NoOptions
               /\ pc' = "done"
               /\ UNCHANGED <<valid_expirations, tasks>>
          ELSE IF SelectionRaises(exps, a)
          THEN /\ ret' = HandleException("time data does not match format '%Y-%m-%d'")
               /\ pc' = "done"
               /\ UNCHANGED <<valid_expirations, tasks>>
          ELSE /\ valid_expirations' = valid
               /\ IF valid = <<>>
                  THEN /\ ret' = NoneInRange
                       /\ pc' = "done"
                       /\ UNCHANGED tasks
                  ELSE /\ tasks' = [i \in 1..Len(valid) |->
                                      [st |-> "queued", calls |-> 0, result |-> NoResult,
                                       served |-> "none"]]
                       /\ pc' = "join"
                       /\ UNCHANGED ret

\* lines 159-174: validate, then ask the session for the listing
Invoke(a) ==
    /\ pc = "call"
    /\ args' = a
    /\ IF Validate(a) # NotReturned
       THEN /\ ret' = Validate(a)
            /\ pc' = "done"
            /\ UNCHANGED <<expirations, valid_expirations, tasks, provCalls>>
       ELSE /\ provCalls' = provCalls + 1
            /\ LET r == CachedResponse(ListId)
               IN IF r # None
                  THEN AfterListing(r.some, a)
                  ELSE /\ pc' = "list_acquire"
                       /\ UNCHANGED <<expirations, valid_expirations, tasks, ret>>
    /\ UNCHANGED <<merged, gateVars, callerVars>>

\* the listing request waits for the limiter
ListAcquire ==
    /\ pc = "list_acquire"
    /\ LimiterHasRoom(ListId)
    /\ bucket' = LimiterPut(ListId)
    /\ started' = LogStart(ListId)
    /\ netCalls' = CountNet(ListId)
    /\ pc' = "list_send"
    /\ UNCHANGED <<cache, callerVars, args, expirations, valid_expirations, tasks, merged,
                   provCalls, ret>>

\* the listing arrives, or the provider fails and line 225 catches it
ListSend ==
    /\ pc = "list_send"
    /\ \/ \E exps \in ExpirationLists :
            /\ cache' = CacheSave(ListId, exps)
            /\ AfterListing(exps, args)
       \/ \E msg \in FailureTexts :
            /\ ret' = HandleException(msg)
            /\ pc' = "done"
            /\ UNCHANGED <<cache, expirations, valid_expirations, tasks>>
    /\ UNCHANGED <<bucket, started, netCalls, callerVars, args, merged, provCalls>>

Running == {i \in 1..Len(tasks) : tasks[i].st \in {"acquire", "send"}}

\* a worker takes a fetch: get_options_chain up to the session's cache (lines 134-138)
WorkerRun(i) ==
    /\ pc = "join"
    /\ i \in 1..Len(tasks)
    /\ tasks[i].st = "queued"
    /\ Cardinality(Running) < max_workers
    /\ LET exp == valid_expirations[i]
           r == CachedResponse(ChainId(exp))
       IN IF exp = <<>>
          THEN /\ tasks' = [tasks EXCEPT ![i].st = "done", ![i].calls = @ + 1,
                                         ![i].result = NoExpiry, ![i].served = "fail"]
               /\ UNCHANGED provCalls
          ELSE /\ provCalls' = provCalls + 1
               /\ IF r # None
                  THEN tasks' = [tasks EXCEPT ![i].st = "done", ![i].calls = @ + 1,
                                    ![i].result = ChainResult(r.some, args.option_type),
                                    ![i].served = "ok"]
                  ELSE tasks' = [tasks EXCEPT ![i].st = "acquire", ![i].calls = @ + 1]
    /\ UNCHANGED <<gateVars, callerVars, pc, args, expirations, valid_expirations, merged, ret>>

\* the fetch waits for the limiter
WorkerAcquire(i) ==
    /\ pc = "join"
    /\ i \in 1..Len(tasks)
    /\ tasks[i].st = "acquire"
    /\ LimiterHasRoom(ChainId(valid_expirations[i]))
    /\ bucket' = LimiterPut(ChainId(valid_expirations[i]))
    /\ started' = LogStart(ChainId(valid_expirations[i]))
    /\ netCalls' = CountNet(ChainId(valid_expirations[i]))
    /\ tasks' = [tasks EXCEPT ![i].st = "send"]
    /\ UNCHANGED <<cache, callerVars, pc, args, expirations, valid_expirations, merged,
                   provCalls, ret>>

\* the variant that puts a failed fetch back in the queue
FetchRetried(ts, i, result, served) ==
    IF served = "fail" THEN [ts EXCEPT ![i].st = "queued"]
    ELSE [ts EXCEPT ![i].st = "done", ![i].result = result, ![i].served = served]

\* what a finished fetch leaves in the task list
FetchDone(ts, i, result, served) ==
    [ts EXCEPT ![i].st = "done", ![i].result = result, ![i].served = served]

\* the chain arrives, or the provider fails and line 146 catches it
WorkerSend(i) ==
    /\ pc = "join"
    /\ i \in 1..Len(tasks)
    /\ tasks[i].st = "send"
    /\ LET exp == valid_expirations[i]
       IN \/ /\ cache' = CacheSave(ChainId(exp), ChainOf(exp))
             /\ tasks' = FetchDone(tasks, i, ChainResult(ChainOf(exp), args.option_type), "ok")
          \/ \E msg \in FailureTexts :
               /\ tasks' = FetchDone(tasks, i, ChainFailure(msg), "fail")
               /\ UNCHANGED cache
    /\ UNCHANGED <<bucket, started, netCalls, callerVars, pc, args, expirations,
                   valid_expirations, merged, provCalls, ret>>

\* the variant that goes on as soon as one fetch has finished
AnyFetched(ts) == \E i \in 1..Len(ts) : ts[i].st = "done"

\* line 200: the with block ends when every fetch has finished
AllFetched(ts) == \A i \in 1..Len(ts) : ts[i].st = "done"

\* the variant that treats a result without rows like the absence of any chain:
\* the check of lines 209-210 applied to the filtered frame as well
CollectEmptyIsNoData ==
    /\ pc = "join"
    /\ AllFetched(tasks)
    /\ \E options_results \in {[i \in 1..Len(tasks) |-> tasks[i].result]} :
       \E filtered_option_chains \in {FilteredOptionChains(options_results, valid_expirations)} :
          IF filtered_option_chains = <<>>
          THEN /\ ret' = NoneMatching
               /\ UNCHANGED merged
          ELSE \E df \in {Concat(filtered_option_chains)} :
               \E kept \in {StrikeFilter(df, args.strike_lower, args.strike_upper)} :
                  /\ merged' = df
                  /\ ret' = IF kept = <<>> THEN NoneMatching
                                           ELSE Returned(Some(SortValues(kept)), None)
    /\ pc' = "done"
    /\ UNCHANGED <<gateVars, callerVars, args, expirations, valid_expirations, tasks, provCalls>>

\* lines 202-223; each frame is bound to its value once it has been computed
Collect ==
    /\ pc = "join"
    /\ AllFetched(tasks)
    /\ \E options_results \in {[i \in 1..Len(tasks) |-> tasks[i].result]} :
       \E filtered_option_chains \in {FilteredOptionChains(options_results, valid_expirations)} :
          IF filtered_option_chains = <<>>
          THEN /\ ret' = NoneMatching
               /\ UNCHANGED merged
          ELSE \E df \in {Concat(filtered_option_chains)} :
               \E kept \in {StrikeFilter(df, args.strike_lower, args.strike_upper)} :
                  /\ merged' = df
                  /\ ret' = Returned(Some(SortValues(kept)), None)
    /\ pc' = "done"
    /\ UNCHANGED <<gateVars, callerVars, args, expirations, valid_expirations, tasks, provCalls>>

ClockTick == Tick /\ UNCHANGED callerVars /\ UNCHANGED pipeVars

Step ==
    \/ ListAcquire
    \/ ListSend
    \/ \E i \in 1..Len(tasks) : WorkerRun(i)
    \/ \E i \in 1..Len(tasks) : WorkerAcquire(i)
    \/ \E i \in 1..Len(tasks) : WorkerSend(i)
    \/ Collect

Next ==
    \/ \E a \in ArgSets : Invoke(a)
    \/ Step

Spec == Init /\ [][Next]_vars

\* requests of two accessors that the provider client sends to different hosts
RateIds == {ListId, QuoteId}

\* requests of one endpoint that differ in a parameter only
CacheIds == {ListId, ChainId(Jan17)}

\* the limiter under load: callers, the clock, one payload version
RateNext ==
    \/ \E c \in Callers, id \in RateIds : Request(c, id)
    \/ \E c \in Callers : Acquire(c)
    \/ \E c \in Callers : Send(c, {1})
    \/ ClockTick

\* the cache over its time-to-live: callers, payload versions, lapses, inside one window
CacheNext ==
    \/ \E c \in Callers, id \in CacheIds : Request(c, id)
    \/ \E c \in Callers : Acquire(c)
    \/ \E c \in Callers : Send(c, Payloads)
    \/ \E id \in CacheIds : TTLLapse(id)

RateSpec == ColdInit /\ [][RateNext]_vars

CacheSpec == ColdInit /\ [][CacheNext]_vars

(***************************************************************************)
(* The call under a fair scheduler, with the session possibly just used by  *)
(* other accessors: four permits of the window are taken, so fetches wait   *)
(* for the limiter.  The threads keep being scheduled, provider calls       *)
(* return, and time passes.                                                 *)
(***************************************************************************)
FairArgs ==
    [start_date : {None, Some(<<"2", "0", "2", "5", "-", "0", "2", "-", "0", "1">>)},
     end_date : {None}, option_type : {None}, strike_lower : {None}, strike_upper : {None}]

BusyBucket == [h \in Hosts |-> IF h = HostOf(ListId) THEN <<0, 0, 0, 0>> ELSE <<>>]

FairInit ==
    /\ cache = [id \in Idents |-> Absent]
    /\ bucket \in {[h \in Hosts |-> <<>>], BusyBucket}
    /\ started = bucket
    /\ netCalls = [id \in Idents |-> 0]
    /\ CallersInit
    /\ PipeInit

FairNext ==
    \/ \E a \in FairArgs : Invoke(a)
    \/ Step
    \/ ClockTick

\* a thread that can take its next step takes it, and the clock goes on
Fairness == WF_vars(Step) /\ WF_vars(ClockTick)

FairSpec == FairInit /\ [][FairNext]_vars /\ Fairness

(***************************************************************************)
(* C3: no more than RequestRate_limit network calls start within any        *)
(* window of Duration_SECOND, counting the calls of all callers and all     *)
(* hosts together.  `started` holds exactly the calls started inside the    *)
(* window that ends now, so the bound is stated of every state.             *)
(***************************************************************************)
RECURSIVE SumLen(_, _)
SumLen(f, S) ==
    IF S = {} THEN 0
    ELSE LET h == CHOOSE x \in S : TRUE IN Len(f[h]) + SumLen(f, S \ {h})

C3_GlobalWindow == SumLen(started, Hosts) <= RequestRate_limit

\* what the limiter does keep: the bound for the calls to each single host
PerHostWindow == \A h \in Hosts : Len(started[h]) <= RequestRate_limit

Untag(row) == Row(row.contractSymbol, row.strike, row.openInterest, row.volume)

RowsTagged(df, exp) ==
    LET Tagged(row) == row.expiryDate = exp
        rows == SelectSeq(df, Tagged)
    IN [i \in 1..Len(rows) |-> Untag(rows[i])]

SomeFetched == \E i \in 1..Len(tasks) : tasks[i].served = "ok"

C1_PartialFailure ==
    (pc = "done" /\ SomeFetched) =>
        /\ ~ret.raised /\ ret.err = None /\ ret.df # None
        /\ \A i \in 1..Len(tasks) :
              RowsTagged(merged, valid_expirations[i]) =
                  IF tasks[i].served = "ok"
                  THEN ChainRows(ChainOf(valid_expirations[i]), args.option_type)
                  ELSE <<>>
        /\ \A k \in 1..Len(merged) :
              \E i \in 1..Len(tasks) : merged[k].expiryDate = valid_expirations[i]

\* one fetch failed, a later one succeeded, and its rows are in the merged frame
C1_Witness ==
    /\ pc = "done"
    /\ \E i, j \in 1..Len(tasks) :
          /\ i < j
          /\ tasks[i].served = "fail"
          /\ tasks[j].served = "ok"
          /\ RowsTagged(merged, valid_expirations[j]) # <<>>

(***************************************************************************)
(* C2: get_filtered_options never raises; it returns either a result and    *)
(* no error, or no result and a non-empty error text.                       *)
(***************************************************************************)
C2_NeverRaises ==
    /\ ~ret.raised
    /\ pc = "done" =>
          \/ ret.df # None /\ ret.err = None
          \/ ret.df = None /\ ret.err # None /\ ret.err.some # ""

\* the provider failed while listing the expirations, with an empty message
C2_Witness ==
    /\ pc = "done"
    /\ expirations = <<>>
    /\ netCalls[ListId] = 1
    /\ ret = HandleException("")

(***************************************************************************)
(* C5: the expirations selected are exactly the listed dates d with         *)
(* start <= d <= end, an absent bound imposing nothing, in listing order.   *)
(* Dates are compared here as the numbers yyyymmdd.                         *)
(***************************************************************************)
DateNum(date) == 10000 * date.y + 100 * date.m + date.d

\* a listed expiration is a ten-character text yyyy-mm-dd
ListedNum(exp) ==
    10000000 * DigitVal(exp[1]) + 1000000 * DigitVal(exp[2]) + 100000 * DigitVal(exp[3])
    + 10000 * DigitVal(exp[4]) + 1000 * DigitVal(exp[6]) + 100 * DigitVal(exp[7])
    + 10 * DigitVal(exp[9]) + DigitVal(exp[10])

BoundAbsent(text) == text = None \/ text = Some(<<>>)

InRange(exp) ==
    /\ BoundAbsent(args.start_date) \/ DateNum(strptime(args.start_date.some)) <= ListedNum(exp)
    /\ BoundAbsent(args.end_date) \/ ListedNum(exp) <= DateNum(strptime(args.end_date.some))

C5_Selection ==
    (pc \in {"join", "done"} /\ expirations # <<>> /\ ~SelectionRaises(expirations, args))
        => valid_expirations = SelectSeq(expirations, InRange)

\* the scenario of the specification, with the lower bound on a listed date
C5_Witness ==
    /\ pc = "join"
    /\ expirations = <<Jan17, Feb21, Mar21>>
    /\ args.start_date = Some(<<"2", "0", "2", "5", "-", "2", "-", "2", "1">>)
    /\ args.end_date = Some(<<"2", "0", "2", "5", "-", "0", "3", "-", "3", "1">>)
    /\ valid_expirations = <<Feb21, Mar21>>

(***************************************************************************)
(* C6, as stated: a start_date or end_date that is provided and does not    *)
(* parse makes the call return a validation error with no request put to   *)
(* the session, the window and the cache as they were.                      *)
(***************************************************************************)
GateUntouched ==
    /\ provCalls = 0
    /\ cache \in CacheFiles
    /\ \A h \in Hosts : bucket[h] = <<>> /\ started[h] = <<>>
    /\ \A id \in Idents : netCalls[id] = 0

Rejected == pc = "done" /\ ret \in {InvalidStart, InvalidEnd} /\ GateUntouched

ProvidedMalformed(text) == text # None /\ ~Parses(text.some)

C6_MalformedRejected ==
    (pc # "call" /\ (ProvidedMalformed(args.start_date) \/ ProvidedMalformed(args.end_date)))
        => Rejected

(***************************************************************************)
(* C6, amended: a start_date or end_date that is a non-empty text and does  *)
(* not parse makes the call return a validation error with no request put   *)
(* to the session; an empty text is taken as an absent bound.               *)
(***************************************************************************)
NonEmptyMalformed(text) == text # None /\ text.some # <<>> /\ ~Parses(text.some)

C6_NonEmptyMalformedRejected ==
    (pc # "call" /\ (NonEmptyMalformed(args.start_date) \/ NonEmptyMalformed(args.end_date)))
        => Rejected

\* a well-formed start date with a malformed end date is rejected for the end date
C6_Witness ==
    /\ Rejected
    /\ ret = InvalidEnd
    /\ Truthy(args.start_date)
    /\ Parses(args.start_date.some)

(***************************************************************************)
(* C7: the rows returned are exactly the merged rows whose strike lies in   *)
(* the inclusive bounds, ordered non-increasing by open interest and, among *)
(* equal open interest, non-increasing by volume.                           *)
(***************************************************************************)
InBounds(row) ==
    /\ ~(args.strike_lower # None /\ row.strike < args.strike_lower.some)
    /\ ~(args.strike_upper # None /\ row.strike > args.strike_upper.some)

RowSet(df) == {df[i] : i \in 1..Len(df)}

C7_FilterSort ==
    (pc = "done" /\ ret.df # None) =>
        LET out == ret.df.some
        IN /\ RowSet(out) = {row \in RowSet(merged) : InBounds(row)}
           /\ Len(out) = Cardinality(RowSet(out))
           /\ \A i, j \in 1..Len(out) :
                 i < j => \/ out[i].openInterest > out[j].openInterest
                          \/ /\ out[i].openInterest = out[j].openInterest
                             /\ out[i].volume >= out[j].volume

\* the scenario of the specification: strikes 90 and 200 dropped, 100 and 150 kept
C7_Witness ==
    /\ pc = "done"
    /\ ret.df # None
    /\ args.strike_lower = Some(100)
    /\ args.strike_upper = Some(150)
    /\ {row.strike : row \in RowSet(merged)} = {90, 100, 125, 150, 200}
    /\ {row.strike : row \in RowSet(ret.df.some)} = {100, 125, 150}

(***************************************************************************)
(* C8: with a non-empty selection, the no-data error is returned if and     *)
(* only if every selected expiration's fetch failed; while one succeeded    *)
(* the call returns no error.                                               *)
(***************************************************************************)
C8_NoDataIffAllFailed ==
    (pc = "done" /\ tasks # <<>>) =>
        /\ ret = NoneMatching <=> \A i \in 1..Len(tasks) : tasks[i].served = "fail"
        /\ SomeFetched => ret.err = None

\* every fetch failed, one of them with an empty message
C8_Witness ==
    /\ pc = "done"
    /\ Len(tasks) >= 2
    /\ \A i \in 1..Len(tasks) : tasks[i].served = "fail"
    /\ \E i \in 1..Len(tasks) : tasks[i].result.error = Some("")
    /\ ret = NoneMatching

(***************************************************************************)
(* C9: the chain fetch is invoked exactly once for each selected            *)
(* expiration: never twice, a fetch not yet started can start whatever      *)
(* became of its siblings, and at the return each has been invoked.         *)
(***************************************************************************)
C9_OncePerExpiration ==
    /\ \A i \in 1..Len(tasks) :
          /\ tasks[i].calls <= 1
          /\ (pc = "join" /\ tasks[i].st = "queued") => ENABLED WorkerRun(i)
    /\ (pc = "done" /\ tasks # <<>>) =>
          /\ Len(tasks) = Len(valid_expirations)
          /\ \A i \in 1..Len(tasks) : tasks[i].calls = 1

\* a fetch has failed while a sibling has not started yet
C9_Witness ==
    /\ pc = "join"
    /\ \E i, j \in 1..Len(tasks) :
          /\ tasks[i].served = "fail"
          /\ tasks[j].st = "queued"

(***************************************************************************)
(* C10: the call returns only after every dispatched fetch has finished,    *)
(* and, every provider call and limiter wait ending, it does return.        *)
(***************************************************************************)
C10_JoinThenReturn ==
    /\ [](pc = "done" => \A i \in 1..Len(tasks) : tasks[i].st = "done")
    /\ [](pc # "call" => <>(pc = "done"))

\* the call returned after all its fetches went to the network, and some of their
\* permits have left the limiter's window since
C10_Witness ==
    /\ pc = "done"
    /\ Len(tasks) >= 2
    /\ \A i \in 1..Len(tasks) : tasks[i].st = "done"
    /\ \A i \in 1..Len(tasks) : netCalls[ChainId(valid_expirations[i])] = 1
    /\ Len(bucket[HostOf(ListId)]) < 1 + Len(tasks)

(***************************************************************************)
(* C11, as stated: callers that ask for the same uncached identity at the   *)
(* same time cause one network call between them, and each call admitted    *)
(* takes exactly one unit of its window.  A network call therefore never    *)
(* starts for an identity that has a call under way or a fresh entry.       *)
(***************************************************************************)
C11_SingleFlight ==
    [][\A c \in Callers :
          Acquire(c) =>
              /\ cache[callers[c].id].state # "fresh"
              /\ \A d \in Callers \ {c} :
                    ~(callers[d].st = "send" /\ callers[d].id = callers[c].id)
              /\ \A h \in Hosts :
                    Len(bucket'[h]) = Len(bucket[h])
                                      + (IF h = BucketName(callers[c].id) THEN 1 ELSE 0)]_vars

\* what does hold here, Limiter.try_acquire being one step: each call admitted
\* takes one unit of its own window
C11_OneUnitEach ==
    [][\A c \in Callers :
          Acquire(c) =>
              \A h \in Hosts :
                 Len(bucket'[h]) = Len(bucket[h])
                                   + (IF h = BucketName(callers[c].id) THEN 1 ELSE 0)]_vars

(***************************************************************************)
(* C12: a request that finds an unexpired entry returns its payload without *)
(* the limiter: the window, the log of started calls and the count of       *)
(* network calls stay as they were, and the request can be served whatever  *)
(* the window holds, a full window included.                                *)
(***************************************************************************)
C12_HitBypassesLimiter ==
    /\ [][\A c \in Callers, id \in Idents :
             (Request(c, id) /\ CachedResponse(id) # None)
                 => /\ bucket' = bucket
                    /\ started' = started
                    /\ netCalls' = netCalls
                    /\ callers'[c].st = "idle"
                    /\ returned' = [id |-> id, resp |-> CachedResponse(id), via |-> "cache"]]_vars
    /\ [](\A c \in Callers, id \in Idents :
             (callers[c].st = "idle" /\ CachedResponse(id) # None) => ENABLED Request(c, id))

\* the last response came from the cache while the window of its host was full:
\* no call is under way, so the permits were all taken before the hit
C12_Witness ==
    /\ returned.via = "cache"
    /\ \A c \in Callers : callers[c].st = "idle"
    /\ Len(bucket[BucketName(returned.id)]) = RequestRate_limit

(***************************************************************************)
(* The limiter with its window full when the callers arrive: the session    *)
(* has just been used for RequestRate_limit calls to the host.  Time        *)
(* passes, and a caller waiting in LimiterMixin.send retries until it       *)
(* finds room.                                                              *)
(***************************************************************************)
FullBucket ==
    [h \in Hosts |-> IF h = HostOf(ListId) THEN [i \in 1..RequestRate_limit |-> 0] ELSE <<>>]

WaitInit ==
    /\ cache = [id \in Idents |-> Absent]
    /\ bucket = FullBucket
    /\ started = FullBucket
    /\ netCalls = [id \in Idents |-> 0]
    /\ CallersInit
    /\ PipeInit

WaitNext ==
    \/ \E c \in Callers : Request(c, ListId)
    \/ \E c \in Callers : Acquire(c)
    \/ \E c \in Callers : Send(c, {1})
    \/ ClockTick

\* the clock goes on; a waiting caller sleeps until the oldest permit leaves the
\* window and then tries again, so it is not passed over forever by later callers
WaitFairness == WF_vars(ClockTick) /\ \A c \in Callers : SF_vars(Acquire(c))

WaitSpec == WaitInit /\ [][WaitNext]_vars /\ WaitFairness

C14_NoNegativeCaching ==
    [][\A c \in Callers :
          /\ (callers[c].st = "send" /\ callers'[c].st = "idle" /\ returned'.resp = None)
                => /\ cache' = cache
                   /\ returned' = [id |-> callers[c].id, resp |-> None, via |-> "net"]
          /\ \A id \in Idents :
                (Request(c, id) /\ cache[id].state # "fresh")
                    => /\ callers'[c] = [st |-> "acquire", id |-> id]
                       /\ returned' = returned]_vars

\* the last response was a failure, nothing is stored for its identity, and the
\* second network call for that identity is under way
C14_Witness ==
    /\ returned.resp = None
    /\ returned.via = "net"
    /\ cache[returned.id] = Absent
    /\ netCalls[returned.id] = 2
    /\ Len(bucket[BucketName(returned.id)]) = 2
    /\ \E c \in Callers :
          /\ callers[c] = [st |-> "send", id |-> returned.id]
          /\ \A d \in Callers \ {c} : callers[d].st = "idle"

(***************************************************************************)
(* C15: every row of the result carries as its tag a selected expiration    *)
(* whose fetch succeeded, and the row is a row of the chain the provider    *)
(* serves for that expiration, in whatever order the fetches ran and        *)
(* finished.                                                                *)
(***************************************************************************)
C15_TagIsOwnExpiration ==
    (pc = "done" /\ ret.df # None) =>
        \A k \in 1..Len(ret.df.some) :
           \E i \in 1..Len(tasks) :
              /\ ret.df.some[k].expiryDate = valid_expirations[i]
              /\ tasks[i].served = "ok"
              /\ Untag(ret.df.some[k])
                    \in RowSet(ChainRows(ChainOf(valid_expirations[i]), args.option_type))

\* the result holds rows of two expirations, each under its own tag
C15_Witness ==
    /\ pc = "done"
    /\ ret.df # None
    /\ \E k, l \in 1..Len(ret.df.some) :
          /\ ret.df.some[k].expiryDate = Jan17
          /\ ret.df.some[l].expiryDate = Feb21
          /\ ret.df.some[k].contractSymbol = "J-C100"
          /\ ret.df.some[l].contractSymbol = "F-C150"

(***************************************************************************)
(* get_options_chain called on its own (lines 122-148): one fetch through   *)
(* the shared session, whose window may be full, for an expiry that may be  *)
(* missing.  None and '' are both falsy at line 135; the empty text stands  *)
(* for either.                                                              *)
(***************************************************************************)
ChainExpiries == {<<>>} \cup {Listing[i] : i \in 1..Min(MaxExp, Len(Listing))}

ChainInit ==
    /\ cache \in CacheFiles
    /\ bucket \in {[h \in Hosts |-> <<>>], FullBucket}
    /\ started = bucket
    /\ netCalls = [id \in Idents |-> 0]
    /\ CallersInit
    /\ pc = "join"
    /\ args \in [start_date : {None}, end_date : {None}, option_type : OptionTypes,
                 strike_lower : {None}, strike_upper : {None}]
    /\ expirations = <<>>
    /\ valid_expirations \in {<<expiry>> : expiry \in ChainExpiries}
    /\ tasks = <<[st |-> "queued", calls |-> 0, result |-> NoResult, served |-> "none"]>>
    /\ merged = <<>>
    /\ provCalls = 0
    /\ ret = NotReturned

ChainNext ==
    \/ \E i \in 1..Len(tasks) : WorkerRun(i)
    \/ \E i \in 1..Len(tasks) : WorkerAcquire(i)
    \/ \E i \in 1..Len(tasks) : WorkerSend(i)
    \/ ClockTick

ChainSpec == ChainInit /\ [][ChainNext]_vars

(***************************************************************************)
(* C16: get_options_chain ends with a value, never an exception: rows and   *)
(* no reason when the session answered, no rows and a reason (a text,       *)
(* which is str(e) and may be empty) when the provider or the session       *)
(* failed, and, with no expiry given, no rows and the reason of line 136    *)
(* with no request put to the session.                                      *)
(***************************************************************************)
C16_ChainNeverRaises ==
    \A i \in 1..Len(tasks) :
        tasks[i].st = "done" =>
            /\ \/ tasks[i].result.chain # None /\ tasks[i].result.error = None
               \/ tasks[i].result.chain = None /\ tasks[i].result.error # None
            /\ tasks[i].served = "ok" <=> tasks[i].result.chain # None
            /\ tasks[i].served = "ok" =>
                  tasks[i].result.chain
                     = Some(ChainRows(ChainOf(valid_expirations[i]), args.option_type))
            /\ valid_expirations[i] = <<>> =>
                  /\ tasks[i].result = [chain |-> None, error |-> Some("No expiry date provided")]
                  /\ provCalls = 0
                  /\ \A id \in Idents : netCalls[id] = 0
                  /\ cache \in CacheFiles

\* the provider failed with an exception that carries no message
C16_Witness ==
    /\ Len(tasks) = 1
    /\ tasks[1].st = "done"
    /\ tasks[1].result = [chain |-> None, error |-> Some("")]
    /\ valid_expirations[1] # <<>>
    /\ netCalls[ChainId(valid_expirations[1])] = 1

(***************************************************************************)
(* C17, as stated: when no listed expiration lies in the date range, the    *)
(* call returns its error with no network call attempted.                   *)
(***************************************************************************)
C17_NoNetworkCall ==
    (pc = "done" /\ ret = NoneInRange)
        => /\ provCalls = 0
           /\ \A id \in Idents : netCalls[id] = 0

(***************************************************************************)
(* C17, amended: when the provider lists expirations and none of them lies  *)
(* in the date range, the call returns the date-range error at once: it     *)
(* has asked the session for the listing, and for nothing else; no chain    *)
(* is fetched.                                                              *)
(***************************************************************************)
C17_NoChainFetched ==
    /\ (pc # "call" /\ expirations # <<>> /\ ~SelectionRaises(expirations, args)
          /\ SelectSeq(expirations, InRange) = <<>>)
          => pc = "done" /\ ret = NoneInRange
    /\ (pc = "done" /\ ret = NoneInRange)
          => /\ expirations # <<>>
             /\ valid_expirations = <<>>
             /\ tasks = <<>>
             /\ provCalls = 1
             /\ \A id \in Idents \ {ListId} : netCalls[id] = 0
             /\ \A h \in Hosts :
                   Len(bucket[h]) = (IF h = HostOf(ListId) THEN netCalls[ListId] ELSE 0)

\* three expirations were listed over the network, all before the start date
C17_Witness ==
    /\ pc = "done"
    /\ ret = NoneInRange
    /\ expirations = <<Jan17, Feb21, Mar21>>
    /\ args.start_date = Some(<<"2", "0", "2", "5", "-", "0", "3", "-", "3", "1">>)
    /\ netCalls[ListId] = 1

(***************************************************************************)
(* C18: the rows returned and their order are fixed by the arguments, the   *)
(* listing and what the provider answers for each expiration, whatever the  *)
(* order in which the fetches run and finish.  The result holds each row    *)
(* of the successful chains that lies in the strike bounds once; the        *)
(* merged rows stand in the order of the selected expirations and, within   *)
(* one expiration, of its chain; the result is ordered by open interest     *)
(* and volume, rows tied on both standing in merge order.  One sequence     *)
(* only meets all of this.                                                  *)
(***************************************************************************)
ExpIndex(row) == CHOOSE i \in 1..Len(valid_expirations) : valid_expirations[i] = row.expiryDate

ChainIndex(row) ==
    LET rows == ChainRows(ChainOf(row.expiryDate), args.option_type)
    IN CHOOSE k \in 1..Len(rows) : rows[k] = Untag(row)

MergeBefore(r, s) ==
    \/ ExpIndex(r) < ExpIndex(s)
    \/ ExpIndex(r) = ExpIndex(s) /\ ChainIndex(r) < ChainIndex(s)

FetchedRows ==
    UNION {{[contractSymbol |-> row.contractSymbol, strike |-> row.strike,
             openInterest |-> row.openInterest, volume |-> row.volume,
             expiryDate |-> valid_expirations[i]] :
               row \in RowSet(ChainRows(ChainOf(valid_expirations[i]), args.option_type))} :
           i \in {n \in 1..Len(tasks) : tasks[n].served = "ok"}}

C18_Deterministic ==
    (pc = "done" /\ ret.df # None) =>
        /\ RowSet(merged) = FetchedRows
        /\ Len(merged) = Cardinality(FetchedRows)
        /\ \A i, j \in 1..Len(merged) : i < j => MergeBefore(merged[i], merged[j])
        /\ RowSet(ret.df.some) = {row \in FetchedRows : InBounds(row)}
        /\ Len(ret.df.some) = Cardinality(RowSet(ret.df.some))
        /\ \A i, j \in 1..Len(ret.df.some) :
              i < j =>
                 LET r == ret.df.some[i]
                     s == ret.df.some[j]
                 IN \/ r.openInterest > s.openInterest
                    \/ r.openInterest = s.openInterest /\ r.volume > s.volume
                    \/ /\ r.openInterest = s.openInterest
                       /\ r.volume = s.volume
                       /\ MergeBefore(r, s)

\* rows of two expirations tied on open interest and volume, the row of the earlier
\* selected expiration first, the later expiration having been served from the cache
C18_Witness ==
    /\ pc = "done"
    /\ ret.df # None
    /\ Len(tasks) >= 2
    /\ netCalls[ChainId(Feb21)] = 0
    /\ \E i \in 1..Len(ret.df.some) - 1 :
          /\ ret.df.some[i].contractSymbol = "J-C100"
          /\ ret.df.some[i + 1].contractSymbol = "F-P100"

(***************************************************************************)
(* C19: when at least one fetch succeeded and no merged row is left, the    *)
(* successful chains having no rows or the strike bounds excluding every    *)
(* row, get_filtered_options returns an empty result and no error, not     *)
(* the "matching criteria" error.                                           *)
(***************************************************************************)
C19_EmptyResultNoError ==
    (/\ pc = "done"
     /\ \E i \in 1..Len(tasks) : tasks[i].served = "ok"
     /\ \A i \in 1..Len(merged) : ~InBounds(merged[i])) =>
        /\ ret = Returned(Some(<<>>), None)
        /\ ret # NoneMatching

\* chains with rows were fetched and the strike bounds exclude every row of them
C19_Witness ==
    /\ pc = "done"
    /\ \E i \in 1..Len(tasks) : tasks[i].served = "ok"
    /\ merged # <<>>
    /\ \A i \in 1..Len(merged) : ~InBounds(merged[i])
    /\ ret.df = Some(<<>>)

\* the only chain fetched successfully has no rows
C19_AllChainsEmpty ==
    /\ pc = "done"
    /\ \E i \in 1..Len(tasks) : tasks[i].served = "ok"
    /\ \E i \in 1..Len(tasks) : tasks[i].served # "ok"
    /\ merged = <<>>
    /\ ret.df = Some(<<>>)

=============================================================================
